---- MODULE Spec2Model ----
(***************************************************************************)
(* Model of pbc.Background (src/pbc.py): the construction of the region    *)
(* table from the margin keywords, the include-margins toggle, region      *)
(* resolution and the pixel operations on the working buffer.              *)
(*                                                                         *)
(* Numbers that Python holds as float are rationals <<n, d>> (d > 0) here, *)
(* so int(x * f) is the exact floor.  The shapes and ratios drawn below    *)
(* are ones on which the float product and the exact product have the      *)
(* same floor.                                                             *)
(***************************************************************************)
EXTENDS Integers, Sequences, FiniteSets, TLC

VARIABLES
    args,             \* arguments of Background(image_name, **margins)
    status,           \* "args" before __init__ ran, then "ok" or the exception raised
    width,            \* self.width
    height,           \* self.height
    header_height,    \* self.header_height
    body_height,      \* self.body_height
    thickness,        \* self.<part>_margin_<side>_thickness
    factor,           \* self.<part>_margin_<side>_thickness_factor
    include_margins,  \* self._include_margins
    area,             \* self.__area
    im_obj,           \* self.im_obj, the working buffer
    imco,             \* self.__imco, the copy of the original image
    last,             \* the last call made on the object and what it returned
    nops,             \* number of calls made on the object so far
    save_location,    \* Background.save_location, shared by all objects
    cwd,              \* the working directory of the process
    disk              \* the image files written so far

vars == <<args, status, width, height, header_height, body_height, thickness,
          factor, include_margins, area, im_obj, imco, last, nops, save_location,
          cwd, disk>>

-----------------------------------------------------------------------------
(* Bounds of the model *)

MaxKw == 2     \* at most MaxKw margin keywords are supplied to the constructor

-----------------------------------------------------------------------------
(* Rationals *)

Rat(n) == <<n, 1>>
RatLt(a, b) == a[1] * b[2] < b[1] * a[2]
RatEq(a, b) == a[1] * b[2] = b[1] * a[2]
RatMulInt(k, a) == <<k * a[1], a[2]>>
RatOneMinus(a) == <<a[2] - a[1], a[2]>>
\* int(x) of a non-negative rational
PyInt(a) == a[1] \div a[2]

-----------------------------------------------------------------------------
(* Construction: margin keywords *)

HB == {"header", "body"}
Sides == {"left", "right", "top", "bottom"}
Margins8 == HB \X Sides

\* The keyword of a margin: flat (header_left=...) or an entry of the nested
\* mapping (header={'left': ...}).
Slots == {"flat", "nested"} \X HB \X Sides

DefaultHbratio == <<1, 5>>

DefaultMargin(part, side) ==
    IF part = "header"
    THEN (IF side \in {"left", "right"} THEN <<1, 10>> ELSE <<1, 5>>)
    ELSE (IF side \in {"left", "right"} THEN <<3, 20>> ELSE <<1, 10>>)

\* margins.get("header_left", margins.get("header", {}).get("left", 0.1))
MarginSizeNestedFirst(kw, part, side) ==
    IF <<"nested", part, side>> \in DOMAIN kw THEN kw[<<"nested", part, side>>]
    ELSE IF <<"flat", part, side>> \in DOMAIN kw THEN kw[<<"flat", part, side>>]
    ELSE DefaultMargin(part, side)

MarginSize(kw, part, side) ==
    IF <<"flat", part, side>> \in DOMAIN kw THEN kw[<<"flat", part, side>>]
    ELSE IF <<"nested", part, side>> \in DOMAIN kw THEN kw[<<"nested", part, side>>]
    ELSE DefaultMargin(part, side)

\* The dimension a margin is a fraction of.
GovDim(part, side, w, hh, bh) ==
    IF side \in {"left", "right"} THEN w
    ELSE IF part = "header" THEN hh ELSE bh

\* The dimension the constructor compares the supplied value with: the
\* body's top and bottom margins are compared with self.body_width.
CheckDim(part, side, w, hh, bh) ==
    IF side \in {"left", "right"} THEN w
    ELSE IF part = "header" THEN hh ELSE w

\* if margin_size < 0 or margin_size > limit: raise ValueError
\* elif margin_size < 1: factor = margin_size; thickness = int(dim * factor)
\* else: thickness = int(margin_size); factor = thickness / dim
ResolveMarginFractionUpToOne(margin_size, limit, dim) ==
    IF RatLt(margin_size, Rat(0)) \/ RatLt(Rat(limit), margin_size)
    THEN [err |-> "ValueError", thickness |-> 0, factor |-> Rat(0)]
    ELSE IF ~RatLt(Rat(1), margin_size)
    THEN [err |-> "none", thickness |-> PyInt(RatMulInt(dim, margin_size)),
          factor |-> margin_size]
    ELSE IF dim = 0
    THEN [err |-> "ZeroDivisionError", thickness |-> PyInt(margin_size), factor |-> Rat(0)]
    ELSE [err |-> "none", thickness |-> PyInt(margin_size),
          factor |-> <<PyInt(margin_size), dim>>]

ResolveMargin(margin_size, limit, dim) ==
    IF RatLt(margin_size, Rat(0)) \/ RatLt(Rat(limit), margin_size)
    THEN [err |-> "ValueError", thickness |-> 0, factor |-> Rat(0)]
    ELSE IF RatLt(margin_size, Rat(1))
    THEN [err |-> "none", thickness |-> PyInt(RatMulInt(dim, margin_size)),
          factor |-> margin_size]
    ELSE IF dim = 0
    THEN [err |-> "ZeroDivisionError", thickness |-> PyInt(margin_size), factor |-> Rat(0)]
    ELSE [err |-> "none", thickness |-> PyInt(margin_size),
          factor |-> <<PyInt(margin_size), dim>>]

\* The order in which __init__ resolves the eight margins.
MarginOrder == << <<"header", "left">>, <<"header", "right">>, <<"header", "top">>,
                  <<"header", "bottom">>, <<"body", "left">>, <<"body", "right">>,
                  <<"body", "top">>, <<"body", "bottom">> >>

HeaderHeight(h, hbratio) == PyInt(RatMulInt(h, hbratio))
BodyHeight(h, hbratio) == PyInt(RatMulInt(h, RatOneMinus(hbratio)))

\* The eight resolutions of one construction.
Resolved(a) ==
    LET hh == HeaderHeight(a.height, a.hbratio)
        bh == BodyHeight(a.height, a.hbratio)
    IN [m \in Margins8 |->
           ResolveMargin(MarginSize(a.kw, m[1], m[2]),
                         CheckDim(m[1], m[2], a.width, hh, bh),
                         GovDim(m[1], m[2], a.width, hh, bh))]

\* The exception __init__ raises: that of the first margin, in source order,
\* whose resolution fails; "ok" when none does.
InitOutcome(a) ==
    LET r == Resolved(a)
        bad == {i \in 1..8 : r[MarginOrder[i]].err # "none"}
    IN IF bad = {} THEN "ok"
       ELSE r[MarginOrder[CHOOSE i \in bad : \A j \in bad : i <= j]].err

-----------------------------------------------------------------------------
(* Construction: rectangles and the region table *)

delta_x(box) == box[3] - box[1]
delta_y(box) == box[4] - box[2]
boxsize(box) == <<delta_x(box), delta_y(box)>>
Origin(box) == <<box[1], box[2]>>

header_rect(w, hh) == <<0, 0, w, hh>>

body_rect(w, h, hh, bh) == <<0, hh, w, bh + hh>>

header_cont_rect(T, w, hh) ==
    <<T[<<"header", "left">>], T[<<"header", "top">>],
      w - T[<<"header", "right">>], hh - T[<<"header", "bottom">>]>>

header_cont_height(T, hh) == hh - (T[<<"header", "top">>] + T[<<"header", "bottom">>])

body_cont_rect(T, w, h, hh) ==
    <<T[<<"body", "left">>], hh + T[<<"body", "top">>],
      w - T[<<"body", "right">>], h - T[<<"body", "bottom">>]>>

body_cont_size(T, w, bh) ==
    <<w - (T[<<"body", "left">>] + T[<<"body", "right">>]),
      bh - (T[<<"body", "top">>] + T[<<"body", "bottom">>])>>

header_margin_inclusive(side, T, w, hh) ==
    CASE side = "left"   -> <<0, 0, T[<<"header", "left">>], hh>>
      [] side = "right"  -> <<w - T[<<"header", "right">>], 0, w, hh>>
      [] side = "top"    -> <<0, 0, w, T[<<"header", "top">>]>>
      [] side = "bottom" -> <<0, T[<<"header", "top">>] + header_cont_height(T, hh), w, hh>>

header_margin_exclusive(side, T, w, hh) ==
    CASE side = "left"   -> <<0, T[<<"header", "top">>],
                              T[<<"header", "left">>], hh - T[<<"header", "bottom">>]>>
      [] side = "right"  -> <<w - T[<<"header", "right">>], T[<<"header", "top">>],
                              w, hh - T[<<"header", "bottom">>]>>
      [] side = "top"    -> <<T[<<"header", "left">>], 0,
                              w - T[<<"header", "right">>], T[<<"header", "top">>]>>
      [] side = "bottom" -> <<T[<<"header", "left">>], hh - T[<<"header", "bottom">>],
                              w - T[<<"header", "right">>], hh>>

header_margin_inclusive_size(side, T, w, hh) ==
    CASE side = "left"   -> <<T[<<"header", "left">>], hh>>
      [] side = "right"  -> <<T[<<"header", "right">>], hh>>
      [] side = "top"    -> <<w, T[<<"header", "top">>]>>
      [] side = "bottom" -> <<w, T[<<"header", "bottom">>]>>

body_margin_inclusive(side, T, w, h, hh) ==
    CASE side = "left"   -> <<0, hh, T[<<"body", "left">>], h>>
      [] side = "right"  -> <<w - T[<<"body", "right">>], hh, w, h>>
      [] side = "top"    -> <<0, hh, w, hh + T[<<"body", "top">>]>>
      [] side = "bottom" -> <<0, h - T[<<"body", "bottom">>], w, h>>

body_margin_exclusive(side, T, w, h, hh) ==
    CASE side = "left"   -> <<0, hh + T[<<"body", "top">>],
                              T[<<"body", "left">>], h - T[<<"body", "bottom">>]>>
      [] side = "right"  -> <<w - T[<<"body", "right">>], hh + T[<<"body", "top">>],
                              w, h - T[<<"body", "bottom">>]>>
      [] side = "top"    -> <<T[<<"body", "left">>], hh,
                              w - T[<<"body", "right">>], hh + T[<<"body", "top">>]>>
      [] side = "bottom" -> <<T[<<"body", "left">>], h - T[<<"body", "bottom">>],
                              w - T[<<"body", "right">>], h>>

\* A table entry ((size), (top left corner), (rectangle)).
Entry(size, rect) == <<size, Origin(rect), rect>>

Parts == {"full", "header", "body"}
InclExcl == {"incl", "excl"}
\* 'left-incl', 'left-excl', ...
RegionName(side, in_or_ex) == side \o "-" \o in_or_ex
MarginRegions == {RegionName(s, ie) : s \in Sides, ie \in InclExcl}
BaseRegions == {"full", "inner"} \cup MarginRegions
Aliases == Sides
Regions == BaseRegions \cup Aliases
SideOf(r) == CHOOSE s \in Sides : \E ie \in InclExcl : RegionName(s, ie) = r
IsIncl(r) == \E s \in Sides : RegionName(s, "incl") = r

\* self.__area as __init__ builds it; the '__EMERGENCY' part is empty.
InitArea(T, w, h, hh, bh) ==
    [part \in Parts \cup {"__EMERGENCY"} |->
        CASE part = "full" ->
               [r \in BaseRegions |->
                  CASE r = "full" -> <<<<w, h>>, <<0, 0>>, <<0, 0, w, h>>>>
                    [] r = "inner" -> <<<<20, 20>>, <<20, 20>>>>
                    [] r = "top-incl" ->
                         Entry(<<w, hh>>, header_rect(w, hh))
                    [] r = "top-excl" ->
                         Entry(boxsize(header_cont_rect(T, w, hh)), header_cont_rect(T, w, hh))
                    [] r = "bottom-incl" ->
                         Entry(<<w, bh>>, body_rect(w, h, hh, bh))
                    [] r = "bottom-excl" ->
                         Entry(body_cont_size(T, w, bh), body_cont_rect(T, w, h, hh))
                    [] OTHER -> <<<<20, 20>>, <<10, 10>>>>]
          [] part = "header" ->
               [r \in BaseRegions |->
                  CASE r = "full" -> Entry(<<w, hh>>, header_rect(w, hh))
                    [] r = "inner" ->
                         Entry(boxsize(header_cont_rect(T, w, hh)), header_cont_rect(T, w, hh))
                    [] OTHER ->
                         IF IsIncl(r)
                         THEN Entry(header_margin_inclusive_size(SideOf(r), T, w, hh),
                                    header_margin_inclusive(SideOf(r), T, w, hh))
                         ELSE Entry(boxsize(header_margin_exclusive(SideOf(r), T, w, hh)),
                                    header_margin_exclusive(SideOf(r), T, w, hh))]
          [] part = "body" ->
               [r \in BaseRegions |->
                  CASE r = "full" -> Entry(<<w, bh>>, body_rect(w, h, hh, bh))
                    [] r = "inner" -> Entry(body_cont_size(T, w, bh), body_cont_rect(T, w, h, hh))
                    [] OTHER ->
                         IF IsIncl(r)
                         THEN Entry(boxsize(body_margin_inclusive(SideOf(r), T, w, h, hh)),
                                    body_margin_inclusive(SideOf(r), T, w, h, hh))
                         ELSE Entry(boxsize(body_margin_exclusive(SideOf(r), T, w, h, hh)),
                                    body_margin_exclusive(SideOf(r), T, w, h, hh))]
          [] OTHER -> <<>>]

-----------------------------------------------------------------------------
(* Arguments of the constructor *)

\* Margin values: -0.05, 0.6, 1, 2 for a flat keyword, 0.6 and 2 for an
\* entry of a nested mapping.
Vals == {<<-1, 20>>, <<3, 5>>, <<1, 1>>, <<2, 1>>}
NestedVals == {<<3, 5>>, <<2, 1>>}
SlotVals(s) == IF s[1] = "flat" THEN Vals ELSE NestedVals

\* Sizes (width, height) of the small images.
Shapes == {<<1, 4>>, <<2, 2>>, <<2, 3>>}

\* hbratio: 0.2 (the default), 0.5, 1.
HbRatios == {DefaultHbratio, <<1, 2>>, <<1, 1>>}

NoKw == [s \in {} |-> <<0, 1>>]

\* The keyword sets with at most k keywords, each with one of its values.
RECURSIVE KwUpTo(_)
KwUpTo(k) ==
    IF k = 0 THEN {NoKw}
    ELSE LET prev == KwUpTo(k - 1)
         IN prev \cup UNION {{[x \in DOMAIN kw \cup {s} |-> IF x = s THEN v ELSE kw[x]] :
                                  v \in SlotVals(s)} : kw \in prev, s \in Slots}

Kwargs == KwUpTo(MaxKw)
Kw1(s, v) == [x \in {s} |-> v]
Kw2(s, v, t, u) == [x \in {s, t} |-> IF x = s THEN v ELSE u]

\* The keyword sets of the examples in the docstring of __init__ and of the
\* scenarios of the specification, on a 1000 x 800 image.
DocKwargs ==
    { NoKw,
      Kw1(<<"flat", "header", "left">>, <<1200, 1>>),
      Kw2(<<"flat", "header", "left">>, <<1, 5>>, <<"flat", "header", "right">>, <<1, 5>>),
      Kw2(<<"nested", "header", "left">>, <<1, 5>>, <<"nested", "header", "right">>, <<1, 5>>),
      Kw2(<<"nested", "body", "left">>, <<0, 1>>, <<"nested", "body", "right">>, <<0, 1>>),
      Kw2(<<"flat", "body", "left">>, <<0, 1>>, <<"flat", "body", "right">>, <<0, 1>>),
      Kw2(<<"flat", "header", "top">>, <<1, 2>>, <<"nested", "header", "bottom">>, <<0, 1>>),
      Kw2(<<"nested", "header", "top">>, <<1, 2>>, <<"flat", "header", "bottom">>, <<0, 1>>),
      Kw2(<<"flat", "header", "top">>, <<1, 2>>, <<"flat", "header", "bottom">>, <<0, 1>>),
      Kw2(<<"nested", "header", "top">>, <<1, 2>>, <<"nested", "header", "bottom">>, <<0, 1>>),
      Kw1(<<"flat", "body", "bottom">>, <<1, 2>>),
      Kw1(<<"nested", "body", "bottom">>, <<1, 2>>),
      Kw1(<<"flat", "body", "top">>, <<700, 1>>) }

Args(w, h, r, kw, mode, pixels) ==
    [width |-> w, height |-> h, hbratio |-> r, kw |-> kw, mode |-> mode, pixels |-> pixels]

\* The pixels of an image the model does not look into.
NoPixels == <<>>

ConsArgs ==
    {Args(sh[1], sh[2], r, kw, "RGB", NoPixels) :
        sh \in Shapes, r \in HbRatios, kw \in Kwargs}
    \cup {Args(1000, 800, r, kw, "RGB", NoPixels) :
             r \in {DefaultHbratio, <<1, 4>>, <<1, 2>>}, kw \in DocKwargs}

Unset == <<>>

BeforeInit ==
    /\ status = "args"
    /\ width = 0 /\ height = 0 /\ header_height = 0 /\ body_height = 0
    /\ thickness = Unset /\ factor = Unset
    /\ include_margins = TRUE
    /\ area = Unset
    /\ im_obj = Unset /\ imco = Unset
    /\ last = [op |-> "none"]
    /\ nops = 0
    /\ save_location = ""
    /\ cwd = "/home"
    /\ disk = {}

\* Background.__init__ called with the arguments a.
Init__(a) ==
    /\ LET r == Resolved(a)
           outcome == InitOutcome(a)
           hh == HeaderHeight(a.height, a.hbratio)
           bh == BodyHeight(a.height, a.hbratio)
           T == [m \in Margins8 |-> r[m].thickness]
       IN /\ status' = outcome
          /\ IF outcome = "ok"
             THEN /\ width' = a.width
                  /\ height' = a.height
                  /\ header_height' = hh
                  /\ body_height' = bh
                  /\ thickness' = T
                  /\ factor' = [m \in Margins8 |-> r[m].factor]
                  /\ include_margins' = TRUE
                  /\ area' = InitArea(T, a.width, a.height, hh, bh)
                  /\ im_obj' = a.pixels
                  /\ imco' = a.pixels
             ELSE UNCHANGED <<width, height, header_height, body_height, thickness,
                              factor, include_margins, area, im_obj, imco>>
    /\ last' = [op |-> "__init__"]
    /\ UNCHANGED <<args, nops, save_location, cwd, disk>>

\* The constructor runs once, on the arguments drawn.
Construct ==
    /\ status = "args"
    /\ Init__(args)

InitCons == args \in ConsArgs /\ BeforeInit
NextCons == Construct
SpecCons == InitCons /\ [][NextCons]_vars

-----------------------------------------------------------------------------
(* The include-margins flag and the aliases 'left', 'right', 'top', 'bottom' *)

\* The setter computing the table anew: 'inner' becomes the part's 'full'.
SetterRebuilds(st, switch) ==
    [flag |-> switch,
     area |-> [part \in DOMAIN st.area |->
                 IF part \in Parts
                 THEN [r \in DOMAIN st.area[part] \cup Aliases |->
                         IF r \in Aliases
                         THEN st.area[part][RegionName(r, IF switch = TRUE THEN "incl"
                                                          ELSE "excl")]
                         ELSE IF r = "inner" THEN st.area[part]["full"]
                         ELSE st.area[part][r]]
                 ELSE st.area[part]]]

\* The setter binding every alias to its '-incl' entry, whatever the switch.
SetterAlwaysIncl(st, switch) ==
    [flag |-> switch,
     area |-> [part \in DOMAIN st.area |->
                 IF part \in Parts
                 THEN [r \in DOMAIN st.area[part] \cup Aliases |->
                         IF r \in Aliases THEN st.area[part][RegionName(r, "incl")]
                         ELSE st.area[part][r]]
                 ELSE st.area[part]]]

\* include_margins.setter: the flag is set and the twelve aliases are bound
\* to the '-incl' or the '-excl' entries.  st is [flag, area].
Setter(st, switch) ==
    LET in_or_ex == IF switch = TRUE THEN "incl" ELSE "excl"
    IN [flag |-> switch,
        area |-> [part \in DOMAIN st.area |->
                    IF part \in Parts
                    THEN [r \in DOMAIN st.area[part] \cup Aliases |->
                            IF r \in Aliases THEN st.area[part][RegionName(r, in_or_ex)]
                            ELSE st.area[part][r]]
                    ELSE st.area[part]]]

\* The values of the argument of margins(): True, False, 'return', None
\* (no argument) and anything else.
Switches == {"True", "False", "return", "None", "other"}

\* Background.margins: the state it leaves.
MarginsNoToggle(st, switch) ==
    CASE switch = "True"  -> Setter(st, TRUE)
      [] switch = "False" -> Setter(st, FALSE)
      [] OTHER -> st

MarginsCall(st, switch) ==
    CASE switch = "True"  -> Setter(st, TRUE)
      [] switch = "False" -> Setter(st, FALSE)
      [] switch = "return" -> st
      [] switch = "None" -> IF st.flag = TRUE THEN Setter(st, FALSE) ELSE Setter(st, TRUE)
      [] OTHER -> st

\* Background.margins: the value it returns.
MarginsReturn(st, switch) == IF switch = "return" THEN st.flag ELSE "None"

\* Background.margins
Margins(switch) ==
    /\ status = "ok"
    /\ LET st == MarginsCall([flag |-> include_margins, area |-> area], switch)
       IN /\ include_margins' = st.flag
          /\ area' = st.area
    /\ last' = [op |-> "margins", switch |-> switch,
                ret |-> MarginsReturn([flag |-> include_margins, area |-> area], switch)]
    /\ UNCHANGED <<save_location, cwd, disk>>
    /\ UNCHANGED <<args, status, width, height, header_height, body_height, thickness,
                   factor, im_obj, imco, nops>>

\* The part and region names a caller passes: the known ones and an unknown one.
PartArgs == Parts \cup {"__EMERGENCY", "footer"}
RegionArgs == Regions \cup {"centre"}

\* __area_check with a single margins() call.
AreaCheckStateOnce(st) == MarginsCall(st, "None")

\* __area_check: margins() twice, then the validation of part and region.
\* The state it leaves.
AreaCheckState(st) == MarginsCall(MarginsCall(st, "None"), "None")

\* The pair it returns, looked up in the table st.area it left.
AreaCheckFullFull(st, part, region) ==
    IF part \in DOMAIN st.area \ {"__EMERGENCY"} /\ region \in DOMAIN st.area["full"]
    THEN <<part, region>>
    ELSE <<"full", "full">>

AreaCheck(st, part, region) ==
    LET keys == DOMAIN st.area \ {"__EMERGENCY"}
        part1 == IF part \notin keys THEN "full" ELSE part
        region1 == IF region \notin DOMAIN st.area["full"] THEN "full" ELSE region
    IN <<part1, region1>>

\* t[:2] of a table entry
Slice2(t) == <<t[1], t[2]>>

\* Background.dimensions
Dimensions(part, region) ==
    /\ status = "ok"
    /\ LET st == AreaCheckState([flag |-> include_margins, area |-> area])
           pr == AreaCheck(st, part, region)
       IN /\ include_margins' = st.flag
          /\ area' = st.area
          /\ last' = [op |-> "dimensions", part |-> part, region |-> region,
                      resolved |-> pr, ret |-> Slice2(st.area[pr[1]][pr[2]])]
    /\ UNCHANGED <<save_location, cwd, disk>>
    /\ UNCHANGED <<args, status, width, height, header_height, body_height, thickness,
                   factor, im_obj, imco, nops>>

\* The arguments of the objects the toggle and the resolution are run on.
TableArgs ==
    {Args(1000, 800, DefaultHbratio, kw, "RGB", NoPixels) :
        kw \in {NoKw,
                Kw2(<<"flat", "header", "top">>, <<1, 2>>,
                    <<"nested", "header", "bottom">>, <<0, 1>>),
                Kw1(<<"flat", "header", "left">>, <<1200, 1>>)}}
    \cup {Args(sh[1], sh[2], <<1, 2>>, kw, "RGB", NoPixels) :
             sh \in Shapes,
             kw \in {NoKw,
                     Kw2(<<"flat", "header", "left">>, <<1, 1>>,
                         <<"nested", "body", "bottom">>, <<1, 1>>)}}

Init == args \in TableArgs /\ BeforeInit

Next ==
    \/ Construct
    \/ \E switch \in Switches : Margins(switch)
    \/ \E part \in PartArgs, region \in RegionArgs : Dimensions(part, region)

Spec == Init /\ [][Next]_vars

-----------------------------------------------------------------------------
(* Images of the image library.  An image is [mode, w, h, px]: px maps each  *)
(* <<x, y>> of its grid to a pixel <<r, g, b, a>>; an image without an alpha *)
(* band has a = 255 everywhere.                                              *)

Grid(w, h) == (0..(w - 1)) \X (0..(h - 1))
Img(mode, w, h, px) == [mode |-> mode, w |-> w, h |-> h, px |-> px]
Opaque == 255
\* The pixel crop() pads with outside its source.
PadPixel(mode) == IF mode = "RGBA" THEN <<0, 0, 0, 0>> ELSE <<0, 0, 0, Opaque>>

\* Image.new(mode, size, color)
NewImage(mode, size, color) ==
    Img(mode, size[1], size[2], [p \in Grid(size[1], size[2]) |-> color])

\* Image.crop(box) of a well-formed box
Crop(im, box) ==
    Img(im.mode, delta_x(box), delta_y(box),
        [p \in Grid(delta_x(box), delta_y(box)) |->
            LET q == <<box[1] + p[1], box[2] + p[2]>>
            IN IF q \in DOMAIN im.px THEN im.px[q] ELSE PadPixel(im.mode)])

\* A pixel of the pasted image, converted to the mode of the canvas.
Convert(pixel, mode) ==
    IF mode = "RGBA" THEN pixel ELSE <<pixel[1], pixel[2], pixel[3], Opaque>>

\* canvas.paste(image, coord): the pixels of the canvas after it
Paste(canvas, image, coord) ==
    [p \in DOMAIN canvas.px |->
        LET q == <<p[1] - coord[1], p[2] - coord[2]>>
        IN IF q \in DOMAIN image.px THEN Convert(image.px[q], canvas.mode)
           ELSE canvas.px[p]]

\* The library's rounding of a * b / 255
MulDiv255(a, b) == ((a * b + 128) + ((a * b + 128) \div 256)) \div 256
Blend(mask, in1, in2) == MulDiv255(in1, 255 - mask) + MulDiv255(in2, mask)

\* canvas.paste(image, coord, image): every band of the canvas is blended
\* with the image under the image's alpha band
PasteAlpha(canvas, image, coord) ==
    [p \in DOMAIN canvas.px |->
        LET q == <<p[1] - coord[1], p[2] - coord[2]>>
        IN IF q \in DOMAIN image.px
           THEN LET src == image.px[q]
                    dst == canvas.px[p]
                IN <<Blend(src[4], dst[1], src[1]), Blend(src[4], dst[2], src[2]),
                     Blend(src[4], dst[3], src[3]),
                     IF canvas.mode = "RGBA" THEN Blend(src[4], dst[4], src[4]) ELSE Opaque>>
           ELSE canvas.px[p]]

\* The 3 x 3 window around p, within the image
Window(im, p) ==
    {q \in DOMAIN im.px : q[1] - p[1] \in {-1, 0, 1} /\ q[2] - p[2] \in {-1, 0, 1}}
SetMax(S) == CHOOSE x \in S : \A y \in S : y <= x
SetMin(S) == CHOOSE x \in S : \A y \in S : x <= y
RECURSIVE SetSum(_, _)
SetSum(S, f) == IF S = {} THEN 0
                ELSE LET x == CHOOSE y \in S : TRUE IN f[x] + SetSum(S \ {x}, f)
Bands(mode) == IF mode = "RGBA" THEN {1, 2, 3, 4} ELSE {1, 2, 3}
BandValues(im, p, b) == {im.px[q][b] : q \in Window(im, p)}
Mean(im, p, b) ==
    SetSum(Window(im, p), [q \in Window(im, p) |-> im.px[q][b]])
        \div Cardinality(Window(im, p))

\* ImageFilter.MaxFilter(3), MinFilter(3): the extreme of each band in the window
MaxFilter(im) ==
    [im EXCEPT !.px = [p \in DOMAIN im.px |->
        [b \in 1..4 |-> IF b \in Bands(im.mode) THEN SetMax(BandValues(im, p, b))
                        ELSE Opaque]]]
MinFilter(im) ==
    [im EXCEPT !.px = [p \in DOMAIN im.px |->
        [b \in 1..4 |-> IF b \in Bands(im.mode) THEN SetMin(BandValues(im, p, b))
                        ELSE Opaque]]]
\* ImageFilter.GaussianBlur(radius): radius 0 copies the image; a positive
\* radius is modelled as the mean of each band over the window
GaussianBlur(im, radius) ==
    IF radius = 0 THEN im
    ELSE [im EXCEPT !.px = [p \in DOMAIN im.px |->
             [b \in 1..4 |-> IF b \in Bands(im.mode) THEN Mean(im, p, b) ELSE Opaque]]]

-----------------------------------------------------------------------------
(* Operations on the working buffer *)

MaxOps == 3    \* at most MaxOps calls of filter, overlay and image on an object

Buffer == Img(args.mode, width, height, im_obj)
Original == Img(args.mode, width, height, imco)
NoRaise(px) == [raised |-> "none", px |-> px]
Raise(exception, px) == [raised |-> exception, px |-> px]

\* The secondary images a caller may name: files that open as an RGB, an RGBA
\* and a greyscale picture and as an RGB picture larger than the image, a path
\* that does not exist, a directory, a file that is no image, and an argument
\* that is no path.
Pictures ==
    [rgb  |-> NewImage("RGB", <<2, 2>>, <<200, 100, 0, Opaque>>),
     rgba |-> NewImage("RGBA", <<2, 2>>, <<0, 100, 200, 128>>),
     grey |-> NewImage("L", <<2, 2>>, <<90, 90, 90, Opaque>>),
     big  |-> NewImage("RGB", <<6, 6>>, <<5, 5, 5, Opaque>>)]
Paths ==
    {"rgb", "rgba", "grey", "big", "missing", "directory", "notimage", "notpath"}

\* Image.new of a size with a negative side raises ValueError.
NewOrRaise(mode, size, color) ==
    IF size[1] < 0 \/ size[2] < 0
    THEN [raised |-> "ValueError", image |-> NewImage(mode, <<0, 0>>, color)]
    ELSE [raised |-> "none", image |-> NewImage(mode, size, color)]

\* __try_open_image: FileNotFoundError and AttributeError give the magenta
\* placeholder of the size of the entry, any other exception leaves the call.
TryOpenImage(path, entry) ==
    CASE path \in DOMAIN Pictures -> [raised |-> "none", image |-> Pictures[path]]
      [] path \in {"missing", "notpath"} ->
           NewOrRaise("RGBA", entry[1], <<255, 0, 255, 230>>)
      [] path = "directory" ->
           [raised |-> "IsADirectoryError", image |-> NewImage("L", <<0, 0>>, <<>>)]
      [] OTHER ->
           [raised |-> "UnidentifiedImageError", image |-> NewImage("L", <<0, 0>>, <<>>)]

\* __paste_image: the pixels of the canvas after it
PasteImage(canvas, image, coord) ==
    CASE image.mode = "RGB" -> Paste(canvas, image, coord)
      [] image.mode = "RGBA" -> PasteAlpha(canvas, image, coord)
      [] OTHER -> canvas.px

FilterOptions == {"None", "raw", "blur", "maxFilter", "minFilter"}

\* Filter_options[operation](cropped)
ApplyFilter(operation, cropped, value) ==
    CASE operation = "blur" -> GaussianBlur(cropped, value)
      [] operation = "maxFilter" -> MaxFilter(cropped)
      [] operation = "minFilter" -> MinFilter(cropped)
      [] OTHER -> GaussianBlur(cropped, 0)

\* The image filter() crops: the copy of the original for 'raw', else the
\* working buffer.
CropSourceAlwaysBuffer(operation, buffer, original) == buffer

CropSource(operation, buffer, original) ==
    IF operation = "raw" THEN original ELSE buffer

\* im.crop(self.__area[part][region][2]): the outcomes it can have.  An entry
\* of two elements has no rectangle (IndexError).  For a box with x1 < x0 or
\* y1 < y0 the library either raises ValueError or returns an empty image,
\* after its version.
CropOutcomes(im, entry) ==
    LET empty == NewImage(im.mode, <<0, 0>>, PadPixel(im.mode))
    IN IF Len(entry) < 3 THEN {[raised |-> "IndexError", image |-> empty]}
       ELSE IF ~(entry[3][1] <= entry[3][3] /\ entry[3][2] <= entry[3][4])
       THEN {[raised |-> "ValueError", image |-> empty],
             [raised |-> "none", image |-> empty]}
       ELSE {[raised |-> "none", image |-> Crop(im, entry[3])]}

\* The body of filter() after the resolution: the outcomes it can have.
FilterOutcomes(buffer, original, entry, operation, value) ==
    {IF c.raised # "none" THEN Raise(c.raised, buffer.px)
     ELSE NoRaise(Paste(buffer, ApplyFilter(operation, c.image, value), entry[2])) :
        c \in CropOutcomes(CropSource(operation, buffer, original), entry)}

Resolution(part, region) ==
    LET st == AreaCheckState([flag |-> include_margins, area |-> area])
        pr == AreaCheck(st, part, region)
    IN [st |-> st, pr |-> pr, entry |-> st.area[pr[1]][pr[2]]]

Call(op, part, region, res, out) ==
    [op |-> op, part |-> part, region |-> region, resolved |-> res.pr,
     raised |-> out.raised, changed |-> out.px # im_obj]

\* Background.filter
Filter(operation, part, region, value) ==
    /\ status = "ok"
    /\ nops < MaxOps
    /\ LET res == Resolution(part, region)
           operation1 == IF operation \in FilterOptions THEN operation ELSE "None"
       IN /\ include_margins' = res.st.flag
          /\ area' = res.st.area
          /\ \E out \in FilterOutcomes(Buffer, Original, res.entry, operation1, value) :
                /\ im_obj' = out.px
                /\ last' = Call("filter", part, region, res, out)
                              @@ [operation |-> operation1]
    /\ nops' = nops + 1
    /\ UNCHANGED <<save_location, cwd, disk>>
    /\ UNCHANGED <<args, status, width, height, header_height, body_height, thickness,
                   factor, imco>>

\* The overlay image of overlay(): 'blank', a colour tuple, or a path.
OverlayImage(source, entry) ==
    CASE source.kind = "blank" -> NewOrRaise("RGBA", entry[1], <<150, 150, 150, 150>>)
      [] source.kind = "tuple" ->
           IF Len(source.color) < 3 \/ Len(source.color) > 4
           THEN NewOrRaise("RGBA", entry[1], <<220, 255, 120, 230>>)
           ELSE NewOrRaise("RGBA", entry[1],
                           IF Len(source.color) = 3 THEN source.color \o <<Opaque>>
                           ELSE source.color)
      [] OTHER -> TryOpenImage(source.path, entry)

OverlayOutcome(buffer, entry, source) ==
    LET ov == OverlayImage(source, entry)
    IN IF ov.raised # "none" THEN Raise(ov.raised, buffer.px)
       ELSE NoRaise(PasteImage(buffer, ov.image, entry[2]))

\* Background.overlay
Overlay(source, part, region) ==
    /\ status = "ok"
    /\ nops < MaxOps
    /\ LET res == Resolution(part, region)
           out == OverlayOutcome(Buffer, res.entry, source)
       IN /\ include_margins' = res.st.flag
          /\ area' = res.st.area
          /\ im_obj' = out.px
          /\ last' = Call("overlay", part, region, res, out) @@ [source |-> source]
    /\ nops' = nops + 1
    /\ UNCHANGED <<save_location, cwd, disk>>
    /\ UNCHANGED <<args, status, width, height, header_height, body_height, thickness,
                   factor, imco>>

NoAnchor == <<>>

\* image() without the crop: the picture pasted straight onto the buffer.
ImageOutcomesNoClip(buffer, entry, picture, borders, anchor) ==
    LET opened == IF picture = "None"
                  THEN [raised |-> "none",
                        image |-> NewImage("L", <<buffer.w, buffer.h>>, <<0, 0, 0, 0>>)]
                  ELSE TryOpenImage(picture, entry)
    IN IF opened.raised # "none" THEN {Raise(opened.raised, buffer.px)}
       ELSE {NoRaise(PasteImage(buffer, opened.image,
                                IF anchor = NoAnchor THEN entry[2] ELSE anchor))}

\* The body of image() after the resolution, with transparency at its default
\* of 255: the outcomes it can have.  picture is "None" or a path.  empty_alpha
\* is built in a mode of one band from a colour of four: after its version
\* the library raises TypeError there or builds the image.
ImageOutcomes(buffer, entry, picture, borders, anchor) ==
    LET empty_alpha == NewImage("L", <<buffer.w, buffer.h>>, <<0, 0, 0, 0>>)
        opened == IF picture = "None" THEN [raised |-> "none", image |-> empty_alpha]
                  ELSE TryOpenImage(picture, entry)
        image_copy == [buffer EXCEPT !.px =
                          PasteImage(buffer, opened.image,
                                     IF anchor = NoAnchor THEN entry[2] ELSE anchor)]
        crops == {IF c.raised # "none" THEN Raise(c.raised, buffer.px)
                  ELSE NoRaise(PasteImage(buffer, c.image, entry[2])) :
                     c \in CropOutcomes(image_copy, entry)}
    IN {Raise("TypeError", buffer.px)} \cup
       (IF opened.raised # "none" THEN {Raise(opened.raised, buffer.px)}
        ELSE CASE borders = "True" -> crops
               [] borders = "False" ->
                    {NoRaise(PasteImage(buffer, opened.image, entry[2]))}
               [] OTHER ->
                    IF picture = "None" THEN {Raise("UnboundLocalError", buffer.px)}
                    ELSE {NoRaise(buffer.px)})

\* Background.image
Image(picture, part, region, borders, anchor) ==
    /\ status = "ok"
    /\ nops < MaxOps
    /\ LET res == Resolution(part, region)
       IN /\ include_margins' = res.st.flag
          /\ area' = res.st.area
          /\ \E out \in ImageOutcomes(Buffer, res.entry, picture, borders, anchor) :
                /\ im_obj' = out.px
                /\ last' = Call("image", part, region, res, out)
                              @@ [picture |-> picture, borders |-> borders,
                                  anchor |-> anchor]
    /\ nops' = nops + 1
    /\ UNCHANGED <<save_location, cwd, disk>>
    /\ UNCHANGED <<args, status, width, height, header_height, body_height, thickness,
                   factor, imco>>

\* The original of the images the pixel operations run on.
SourcePixels(w, h) ==
    [p \in Grid(w, h) |-> <<15 * (p[1] + w * p[2]), 100, 250 - 20 * p[2], Opaque>>]

KwAll(hl, hr, ht, hb, bl, br, bt, bb) ==
    [s \in {"flat"} \X HB \X Sides |->
        CASE s[2] = "header" /\ s[3] = "left" -> hl
          [] s[2] = "header" /\ s[3] = "right" -> hr
          [] s[2] = "header" /\ s[3] = "top" -> ht
          [] s[2] = "header" /\ s[3] = "bottom" -> hb
          [] s[2] = "body" /\ s[3] = "left" -> bl
          [] s[2] = "body" /\ s[3] = "right" -> br
          [] s[2] = "body" /\ s[3] = "top" -> bt
          [] s[2] = "body" /\ s[3] = "bottom" -> bb]

\* A 3 x 4 image split in the middle with margins of one pixel, a 3 x 5 image
\* whose left and right header margins overlap, and a 4 x 3 image whose bottom
\* margin of the body is higher than the image.
PixArgs ==
    {Args(3, 4, <<1, 2>>,
          KwAll(Rat(1), Rat(1), Rat(1), Rat(0), Rat(1), Rat(0), Rat(0), Rat(1)),
          "RGB", SourcePixels(3, 4)),
     Args(3, 5, <<1, 2>>,
          KwAll(Rat(2), Rat(2), Rat(0), Rat(1), Rat(1), Rat(1), Rat(1), Rat(0)),
          "RGB", SourcePixels(3, 5)),
     Args(4, 3, <<1, 2>>,
          KwAll(Rat(0), Rat(0), Rat(0), Rat(0), Rat(0), Rat(0), Rat(0), Rat(4)),
          "RGB", SourcePixels(4, 3))}

\* The (part, region) pairs the pixel operations are called with.
Targets == {<<"header", "inner">>, <<"footer", "inner">>, <<"body", "bottom">>}

InitPix == args \in PixArgs /\ BeforeInit

NextPix ==
    \/ Construct
    \/ Margins("None")
    \/ \E operation \in FilterOptions \cup {"sharpen"}, t \in Targets :
          Filter(operation, t[1], t[2], 6)
    \/ \E source \in {[kind |-> "blank"], [kind |-> "tuple", color |-> <<10, 20, 30>>]} :
          Overlay(source, "body", "full")
    \/ \E borders \in {"True", "False"} :
          Image("rgba", "header", "left", borders, NoAnchor)

SpecPix == InitPix /\ [][NextPix]_vars

\* The sources overlay() is called with: the marker, colour tuples of three,
\* four and two elements, and every kind of path.
OvSources ==
    {[kind |-> "blank"]}
        \cup {[kind |-> "tuple", color |-> c] :
                 c \in {<<10, 20, 30>>, <<10, 20, 30, 128>>, <<10, 20>>}}
        \cup {[kind |-> "path", path |-> path] : path \in Paths}

OvTargets == {<<"header", "inner">>, <<"body", "inner">>}

NextOv ==
    \/ Construct
    \/ Margins("None")
    \/ \E source \in OvSources, t \in OvTargets : Overlay(source, t[1], t[2])

SpecOv == InitPix /\ [][NextOv]_vars

\* The calls of image(): with borders=True, no picture, a picture larger than
\* the image and a missing one, at the origin of the region and at anchors
\* left of the image and inside it; with another value of borders; and with
\* borders=False.
ImgClipped ==
    ({"big"} \X
        {<<"body", "full", NoAnchor>>, <<"header", "left", NoAnchor>>,
         <<"body", "full", <<-1, 1>> >>, <<"body", "full", <<2, 3>> >>})
      \cup ({"missing"} \X {<<"body", "full", NoAnchor>>, <<"body", "full", <<-1, 1>> >>})
      \cup {<<"None", <<"body", "full", NoAnchor>> >>}

NextImg ==
    \/ Construct
    \/ Margins("None")
    \/ \E c \in ImgClipped : Image(c[1], c[2][1], c[2][2], "True", c[2][3])
    \/ \E picture \in {"None", "rgb"} : Image(picture, "body", "full", "maybe", NoAnchor)
    \/ Image("rgba", "header", "left", "False", NoAnchor)

SpecImg == InitPix /\ [][NextImg]_vars

\* Every kind of call on an object: margins() with each switch, and
\* dimensions(), filter(), overlay() and image() on an alias, on an entry
\* without rectangle and on an unknown part.
CallTargets == {<<"header", "left">>, <<"footer", "inner">>}

NextCalls ==
    \/ Construct
    \/ \E switch \in Switches : Margins(switch)
    \/ \E t \in CallTargets \cup {<<"full", "bottom">>} : Dimensions(t[1], t[2])
    \/ \E t \in CallTargets : Filter("blur", t[1], t[2], 6)
    \/ Overlay([kind |-> "blank"], "header", "left")
    \/ Image("rgb", "header", "left", "True", NoAnchor)

SpecCalls == InitPix /\ [][NextCalls]_vars

-----------------------------------------------------------------------------
(* Saving.  Directories are written as absolute paths; Exists are the ones   *)
(* os.path.exists finds.                                                     *)

\* self.image_name: the base name of the file the object was opened from
image_name == "pic.jpg"

Exists == {"/home", "/out", "/out/sub", "/pics"}

\* os.path.join of the components of a location
RECURSIVE Join(_)
Join(location) ==
    IF Len(location) = 1 THEN location[1]
    ELSE Join(SubSeq(location, 1, Len(location) - 1)) \o "/" \o location[Len(location)]

\* The locations save_to() and save() are called with.
Locations == {<<"/out">>, <<"/out", "sub">>, <<"/gone">>}

\* Background.save_to; without a component os.path.join() raises TypeError.
SaveTo(location) ==
    /\ IF location = <<>>
       THEN /\ save_location' = save_location
            /\ last' = [op |-> "save_to", raised |-> "TypeError"]
       ELSE /\ save_location' = Join(location)
            /\ last' = [op |-> "save_to", raised |-> "none"]
    /\ UNCHANGED <<cwd, disk>>
    /\ UNCHANGED <<args, status, width, height, header_height, body_height, thickness,
                   factor, include_margins, area, im_obj, imco, nops>>

\* A name given to save(): its directory component, and its base name as the
\* text before the last dot and the text after it (dot = FALSE: no dot).
Name(dir, stem, dot, ext) == [dir |-> dir, stem |-> stem, dot |-> dot, ext |-> ext]
Base(name) == IF name.dot THEN name.stem \o "." \o name.ext ELSE name.stem
NoName == [dir |-> "", stem |-> "None", dot |-> FALSE, ext |-> ""]
Names ==
    {NoName, Name("", "new", TRUE, "png"), Name("/pics", "new", TRUE, "jpg"),
     Name("/gone", "new", TRUE, "png"), Name("", "new", FALSE, "")}

\* The formats the library can write.
Formats == {"png", "jpeg"}

NoFile == [dir |-> "", file |-> "", format |-> ""]

\* save() where only the process-wide directory, not the directory of the
\* name, makes a location one path too many.
SaveCallLocationFirst(sl, wd, name, location) ==
    LET path == IF location # <<>> THEN Join(location)
                ELSE IF sl # "" THEN sl
                ELSE IF name.dir # "" THEN name.dir ELSE wd
        split == IF name.dot THEN name.ext ELSE name.stem
        im_format == IF split = "jpg" THEN "jpeg" ELSE split
    IN IF name = NoName
       THEN [returned |-> "TypeError", path |-> "", cwd |-> wd, written |-> NoFile]
       ELSE IF (location # <<>> /\ sl # "") \/ path \notin Exists \/ im_format \notin Formats
       THEN [returned |-> "skipped", path |-> path, cwd |-> wd, written |-> NoFile]
       ELSE [returned |-> "saved", path |-> path, cwd |-> wd,
             written |-> [dir |-> path, file |-> "pbc-" \o Base(name),
                          format |-> im_format]]

\* The body of save(): what it returns in, and the state it leaves.
\* returned is "skipped" (one of the three early returns), "saved", or the
\* exception that left the call; path is the local variable, "" while unbound.
SaveCall(sl, wd, name, location) ==
    LET im_path == IF sl = "" THEN name.dir ELSE sl
        im_name == Base(name)
        split == IF name.dot THEN name.ext ELSE name.stem
        im_format == IF split = "jpg" THEN "jpeg" ELSE split
        path == CASE location # <<>> /\ im_path # "" -> ""
                  [] location = <<>> /\ im_path = "" -> wd
                  [] location # <<>> /\ im_path = "" -> Join(location)
                  [] OTHER -> im_path
        target == IF location = <<>> /\ im_path = "" THEN wd ELSE path
        skip == [returned |-> "skipped", path |-> path, cwd |-> wd, written |-> NoFile]
    IN IF name = NoName
       THEN [returned |-> "TypeError", path |-> "", cwd |-> wd, written |-> NoFile]
       ELSE IF location # <<>> /\ im_path # "" THEN skip
       ELSE IF target \notin Exists THEN skip
       ELSE IF im_format \notin Formats
       THEN [returned |-> "KeyError", path |-> path, cwd |-> target, written |-> NoFile]
       ELSE [returned |-> "saved", path |-> path, cwd |-> wd,
             written |-> [dir |-> target, file |-> "pbc-" \o im_name,
                          format |-> im_format]]

\* Background.save
Save(name, location) ==
    /\ status = "ok"
    /\ nops < MaxOps
    /\ LET r == SaveCall(save_location, cwd, name, location)
       IN /\ cwd' = r.cwd
          /\ disk' = IF r.written = NoFile THEN disk ELSE disk \cup {r.written}
          /\ last' = [op |-> "save", name |-> name, location |-> location,
                      before |-> cwd, returned |-> r.returned, path |-> r.path,
                      written |-> r.written]
    /\ nops' = nops + 1
    /\ UNCHANGED <<args, status, width, height, header_height, body_height, thickness,
                   factor, include_margins, area, im_obj, imco, save_location>>

SaveArgs == {Args(3, 4, <<1, 2>>, NoKw, "RGB", SourcePixels(3, 4))}

InitSave == args \in SaveArgs /\ BeforeInit

NextSave ==
    \/ Construct
    \/ \E location \in Locations \cup {<<>>, <<"">>} : SaveTo(location)
    \/ \E name \in Names, location \in Locations \cup {<<>>} : Save(name, location)

SpecSave == InitSave /\ [][NextSave]_vars

-----------------------------------------------------------------------------
(* Properties of the construction, checked under SpecCons *)

Built == status = "ok"
Supplied(m) == MarginSize(args.kw, m[1], m[2])
ArgHeaderHeight == HeaderHeight(args.height, args.hbratio)
ArgBodyHeight == BodyHeight(args.height, args.hbratio)
\* The dimension that governs margin m: the image width for left and right,
\* the height of its part for top and bottom.
Governing(m) == GovDim(m[1], m[2], args.width, ArgHeaderHeight, ArgBodyHeight)
OutOfRange(m) == RatLt(Supplied(m), Rat(0)) \/ RatLt(Rat(Governing(m)), Supplied(m))
Rect(part, region) == area[part][region][3]
WellFormed(box) == box[1] <= box[3] /\ box[2] <= box[4]
\* box a lies within box b
Within(a, b) == b[1] <= a[1] /\ a[3] <= b[3] /\ b[2] <= a[2] /\ a[4] <= b[4]

\* C1: the constructor raises the boundary error exactly when one of the eight
\* supplied values is negative or greater than its governing dimension, it
\* raises nothing else, and a constructed object has 0 <= thickness <= the
\* governing dimension for all eight margins.
C1_BoundaryErrorExactly ==
    status # "args" =>
        /\ (status = "ValueError") <=> (\E m \in Margins8 : OutOfRange(m))
        /\ status \in {"ok", "ValueError"}
        /\ Built => \A m \in Margins8 : 0 <= thickness[m] /\ thickness[m] <= Governing(m)

\* C2: in a constructed object, for each side of header and body, the
\* exclusive margin rectangle lies within the inclusive one, which lies within
\* the part's full rectangle, and all of them are well-formed.
C2_ExclWithinInclWithinFull ==
    Built =>
        \A part \in HB, side \in Sides :
            LET excl == Rect(part, RegionName(side, "excl"))
                incl == Rect(part, RegionName(side, "incl"))
                full == Rect(part, "full")
            IN /\ WellFormed(excl) /\ WellFormed(incl) /\ WellFormed(full)
               /\ Within(excl, incl)
               /\ Within(incl, full)

Shrunk(full, part) ==
    <<full[1] + thickness[<<part, "left">>], full[2] + thickness[<<part, "top">>],
      full[3] - thickness[<<part, "right">>], full[4] - thickness[<<part, "bottom">>]>>

\* The inner rectangle and the four bands top-incl, bottom-incl, left-excl and
\* right-excl meet edge to edge and fill the full rectangle.
Tiles(part) ==
    LET full == Rect(part, "full")
        inner == Rect(part, "inner")
    IN /\ Rect(part, "top-incl") = <<full[1], full[2], full[3], inner[2]>>
       /\ Rect(part, "bottom-incl") = <<full[1], inner[4], full[3], full[4]>>
       /\ Rect(part, "left-excl") = <<full[1], inner[2], inner[1], inner[4]>>
       /\ Rect(part, "right-excl") = <<inner[3], inner[2], full[3], inner[4]>>

\* C3: in a constructed object the inner rectangle of header and of body is
\* the part's full rectangle shrunk by its four thicknesses, is well-formed,
\* and tiles the full rectangle together with the four bands; the 1000 x 800
\* image with the defaults has header inner (100,32,900,128) and body inner
\* (150,224,850,736).
C3_InnerIsFullMinusMargins ==
    Built =>
        /\ \A part \in HB :
              /\ Rect(part, "inner") = Shrunk(Rect(part, "full"), part)
              /\ WellFormed(Rect(part, "inner"))
              /\ Tiles(part)
        /\ (args.width = 1000 /\ args.height = 800 /\ args.hbratio = DefaultHbratio
            /\ args.kw = NoKw)
           => /\ Rect("header", "inner") = <<100, 32, 900, 128>>
              /\ Rect("body", "inner") = <<150, 224, 850, 736>>

\* C4: the header's full rectangle is (0, 0, width, floor(height * hbratio))
\* and the body's full rectangle is the remainder (0, header_height, width,
\* height).
C4_BodyIsTheRemainder ==
    Built =>
        /\ Rect("header", "full") = <<0, 0, args.width, ArgHeaderHeight>>
        /\ Rect("body", "full") = <<0, ArgHeaderHeight, args.width, args.height>>

\* C5: when each supplied value v is within 0 <= v <= d of its governing
\* dimension d, the object is constructed and each margin stores thickness
\* floor(v * d) and factor v for v < 1, thickness floor(v) and factor
\* floor(v) / d for v >= 1.
C5_FractionOrPixels ==
    (status # "args" /\ \A m \in Margins8 : ~OutOfRange(m)) =>
        /\ Built
        /\ \A m \in Margins8 :
              LET v == Supplied(m)
                  d == Governing(m)
              IN IF RatLt(v, Rat(1))
                 THEN thickness[m] = PyInt(RatMulInt(d, v)) /\ factor[m] = v
                 ELSE thickness[m] = PyInt(v) /\ RatEq(factor[m], <<PyInt(v), d>>)

\* What the constructor does with value v supplied for margin m of this image.
Again(m, v) ==
    ResolveMargin(v, CheckDim(m[1], m[2], args.width, ArgHeaderHeight, ArgBodyHeight),
                  Governing(m))

Expected(m) ==
    LET flat == <<"flat", m[1], m[2]>>
        nested == <<"nested", m[1], m[2]>>
    IN IF flat \in DOMAIN args.kw THEN args.kw[flat]
       ELSE IF nested \in DOMAIN args.kw THEN args.kw[nested]
       ELSE CASE m[1] = "header" /\ m[2] \in {"left", "right"} -> <<1, 10>>
              [] m[1] = "header" /\ m[2] \in {"top", "bottom"} -> <<1, 5>>
              [] m[1] = "body" /\ m[2] \in {"left", "right"} -> <<3, 20>>
              [] m[1] = "body" /\ m[2] \in {"top", "bottom"} -> <<1, 10>>

\* C7: each margin is resolved from its own flat keyword, else its own entry of
\* the nested mapping, else its default: a constructed object stores, for each
\* margin, the factor (below 1) or the whole pixels (from 1) of that value,
\* and a boundary error is raised only for such a value.
C7_FlatOverNestedOverDefault ==
    /\ Built =>
          \A m \in Margins8 :
              IF RatLt(Expected(m), Rat(1))
              THEN factor[m] = Expected(m)
              ELSE thickness[m] = PyInt(Expected(m))
    /\ status = "ValueError" =>
          \E m \in Margins8 :
              \/ RatLt(Expected(m), Rat(0))
              \/ RatLt(Rat(args.width), Expected(m))
              \/ m[1] = "header" /\ m[2] \in {"top", "bottom"}
                 /\ RatLt(Rat(ArgHeaderHeight), Expected(m))

\* An object built with a flat keyword and a different nested entry for the
\* same margin.
C7_Witness ==
    /\ Built
    /\ \E m \in Margins8 :
          /\ <<"flat", m[1], m[2]>> \in DOMAIN args.kw
          /\ <<"nested", m[1], m[2]>> \in DOMAIN args.kw
          /\ args.kw[<<"flat", m[1], m[2]>>] # args.kw[<<"nested", m[1], m[2]>>]
          /\ args.kw[<<"flat", m[1], m[2]>>] # args.kw[<<"nested", m[1], m[2]>>]

-----------------------------------------------------------------------------
(* Properties of the toggle and of the resolution, checked under Spec *)

\* C8: margins() flips the flag, margins(True) sets it, margins(False) clears
\* it, margins('return') returns it and changes neither the flag nor the
\* table, any other argument changes neither; the flag is set when the
\* constructor returns.
C8_MarginsSwitch ==
    [][/\ (last'.op = "margins" /\ last'.switch = "None")
            => include_margins' = ~include_margins
       /\ (last'.op = "margins" /\ last'.switch = "True") => include_margins' = TRUE
       /\ (last'.op = "margins" /\ last'.switch = "False") => include_margins' = FALSE
       /\ (last'.op = "margins" /\ last'.switch = "return")
            => /\ last'.ret = include_margins
               /\ include_margins' = include_margins
               /\ area' = area
       /\ (last'.op = "margins" /\ last'.switch = "other")
            => /\ include_margins' = include_margins
               /\ area' = area
       /\ (last'.op = "__init__" /\ status' = "ok") => include_margins' = TRUE]_vars

\* margins() with no argument has excluded the margins.
C8_Witness ==
    /\ last.op = "margins"
    /\ last.switch = "None"
    /\ include_margins = FALSE

\* C9 as claimed: whenever the part or the region is unrecognized, the
\* resolution returns ("full", "full"), whose entry is the whole image.
C9_UnknownGivesFullFull ==
    (last.op = "dimensions" /\ (last.part \notin Parts \/ last.region \notin Regions))
        => /\ last.resolved = <<"full", "full">>
           /\ area["full"]["full"][3] = <<0, 0, width, height>>

\* C9 as amended: an unrecognized part is replaced by "full" and an
\* unrecognized region is replaced by "full", each on its own; the entry of
\* ("full", "full") is the whole image.
C9_UnknownReplacedSeparately ==
    last.op = "dimensions"
        => /\ last.resolved = <<IF last.part \in Parts THEN last.part ELSE "full",
                                IF last.region \in Regions THEN last.region ELSE "full">>
           /\ area["full"]["full"][3] = <<0, 0, width, height>>
           /\ last.ret = Slice2(area[last.resolved[1]][last.resolved[2]])

\* An unknown part was resolved together with the region 'inner'.
C9_Witness ==
    /\ last.op = "dimensions"
    /\ last.part \notin Parts
    /\ last.region = "inner"
    /\ last.resolved = <<"full", "inner">>

-----------------------------------------------------------------------------
(* Properties of the operations on the working buffer, checked under SpecPix *)

\* The pixels of the working buffer inside the rectangle of the entry the last
\* call resolved to; none if the entry has no rectangle.
LastRect ==
    LET entry == area[last.resolved[1]][last.resolved[2]]
    IN IF Len(entry) < 3 THEN {}
       ELSE {p \in Grid(width, height) :
                /\ entry[3][1] <= p[1] /\ p[1] < entry[3][3]
                /\ entry[3][2] <= p[2] /\ p[2] < entry[3][4]}

RawDone == last.op = "filter" /\ last.operation = "raw"

\* C10: after any sequence of filter, overlay, image and margins calls,
\* filter('raw') on a region leaves every pixel of the region's rectangle in
\* the working buffer equal to the pixel of the original image at the same
\* coordinate; a following pass-through filter on the same region leaves
\* those pixels as they are; and the copy of the original is never modified.
C10_RawRestoresOriginal ==
    /\ [](status = "ok" => imco = args.pixels)
    /\ [](RawDone => \A p \in LastRect : im_obj[p] = args.pixels[p])
    /\ [][(/\ RawDone
           /\ last'.op = "filter" /\ last'.operation = "None"
           /\ last'.part = last.part /\ last'.region = last.region)
             => \A p \in LastRect : im_obj'[p] = args.pixels[p]]_vars

\* filter('raw') has changed pixels of a working buffer that an earlier call
\* had modified.
C10_Witness ==
    /\ RawDone
    /\ last.raised = "none"
    /\ last.changed
    /\ LastRect # {}

-----------------------------------------------------------------------------
(* Properties of overlay(), checked under SpecOv *)

\* The last call was overlay() with a colour tuple of n elements on an entry
\* that has a rectangle.
OverlayOf(n) ==
    /\ last.op = "overlay"
    /\ last.source.kind = "tuple"
    /\ Len(last.source.color) = n
    /\ Len(area[last.resolved[1]][last.resolved[2]]) = 3

\* The colour c composited over the pixel dst of a buffer without alpha band.
Composited(c, dst) ==
    <<Blend(c[4], dst[1], c[1]), Blend(c[4], dst[2], c[2]), Blend(c[4], dst[3], c[3]),
      Opaque>>

\* C11: overlay() with a colour tuple of three elements leaves every pixel
\* inside the rectangle of the region with exactly that colour and changes no
\* pixel outside it; with a tuple of four elements every pixel inside the
\* rectangle is the colour composited over the pixel under its alpha, and no
\* pixel outside changes.
C11_OverlayColour ==
    [][/\ OverlayOf(3)' =>
            /\ \A p \in LastRect' : im_obj'[p] = last'.source.color \o <<Opaque>>
            /\ \A p \in DOMAIN im_obj \ LastRect' : im_obj'[p] = im_obj[p]
       /\ OverlayOf(4)' =>
            /\ \A p \in LastRect' : im_obj'[p] = Composited(last'.source.color, im_obj[p])
            /\ \A p \in DOMAIN im_obj \ LastRect' : im_obj'[p] = im_obj[p]]_vars

\* The paths whose opening fails.
Failing == {"missing", "directory", "notimage", "notpath"}

\* C12: when the secondary image given to overlay() or image() cannot be
\* opened, whatever the failure, the call returns normally.
C12_OpenFailureNeverRaises ==
    /\ (last.op = "overlay" /\ last.source.kind = "path" /\ last.source.path \in Failing)
          => last.raised = "none"
    /\ (last.op = "image" /\ last.picture \in Failing) => last.raised = "none"

-----------------------------------------------------------------------------
(* Properties of image(), checked under SpecImg *)

\* C13: image() with borders=True changes no pixel of the working buffer
\* outside the rectangle of the resolved region, whatever the size of the
\* picture and wherever the anchor.
C13_BordersClip ==
    [][(last'.op = "image" /\ last'.borders = "True")
          => \A p \in DOMAIN im_obj \ LastRect' : im_obj'[p] = im_obj[p]]_vars

\* image() with borders=True has pasted the part inside the region of a
\* picture larger than the image, anchored left of the image.
C13_Witness ==
    /\ last.op = "image"
    /\ last.borders = "True"
    /\ last.picture = "big"
    /\ last.anchor = <<-1, 1>>
    /\ last.raised = "none"
    /\ last.changed
    /\ \A p \in LastRect : im_obj[p] = <<5, 5, 5, Opaque>>
    /\ \E p \in DOMAIN im_obj \ LastRect : im_obj[p] # <<5, 5, 5, Opaque>>

\* C14: image() with a value of borders that is neither True nor False
\* returns normally and leaves the working buffer, the table and the flag as
\* they were, whatever the picture.
C14_OtherBordersNoOp ==
    [][(last'.op = "image" /\ last'.borders \notin {"True", "False"})
          => /\ last'.raised = "none"
             /\ im_obj' = im_obj
             /\ area' = area
             /\ include_margins' = include_margins]_vars

-----------------------------------------------------------------------------
(* Properties of save(), checked under SpecSave *)

\* The directory the priority order gives the last save(): the location, else
\* the process-wide directory, else the directory of the name, else the
\* working directory.
Priority ==
    IF last.location # <<>> THEN Join(last.location)
    ELSE IF save_location # "" THEN save_location
    ELSE IF last.name.dir # "" THEN last.name.dir
    ELSE last.before

\* C15 as claimed: save() skips when both the process-wide directory and a
\* location are given; otherwise its target is the location if given (whether
\* or not the name carries a directory), else the process-wide directory,
\* else the directory of the name, else the working directory.
C15_SaveDirectoryPriority ==
    last.op = "save" =>
        IF save_location # "" /\ last.location # <<>>
        THEN last.returned = "skipped" /\ last.written = NoFile
        ELSE /\ last.path = Priority
             /\ last.written # NoFile => last.written.dir = Priority

\* C15 as amended: save() with a name skips when a location is given
\* together with the process-wide directory or with a name that carries a
\* directory; otherwise its target is the location if given, else the
\* process-wide directory, else the directory of the name, else the working
\* directory, and a target that does not exist is skipped; save() without a
\* name raises TypeError and writes nothing.
C15_SaveDirectoryAmended ==
    last.op = "save" =>
        IF last.name = NoName
        THEN last.returned = "TypeError" /\ last.written = NoFile
        ELSE IF last.location # <<>> /\ (save_location # "" \/ last.name.dir # "")
        THEN last.returned = "skipped" /\ last.written = NoFile
        ELSE /\ last.path = Priority
             /\ Priority \notin Exists => last.returned = "skipped"
             /\ last.returned = "skipped" => last.written = NoFile
             /\ last.written # NoFile => last.written.dir = Priority
             /\ last.returned = "saved" => (last.written # NoFile /\ last.written \in disk)

\* save() has written a file into the location it was given, while a
\* process-wide directory was unset.
C15_Witness ==
    /\ last.op = "save"
    /\ last.location = <<"/out", "sub">>
    /\ last.returned = "saved"
    /\ last.written.dir = "/out/sub"
    /\ last.written \in disk

\* C16: every file save() writes is named "pbc-" and the base name of the file
\* the object was opened from, in the format of the extension of the name
\* argument (jpg read as jpeg); save() without a name writes that file too.
C16_SavedAsOriginalName ==
    last.op = "save" =>
        /\ last.written # NoFile =>
              /\ last.written.file = "pbc-" \o image_name
              /\ last.written.format
                    = (IF last.name.ext = "jpg" THEN "jpeg" ELSE last.name.ext)
        /\ (last.name = NoName /\ last.location = <<>>) =>
              last.written.file = "pbc-" \o image_name

-----------------------------------------------------------------------------
(* Properties of the table under every kind of call, checked under SpecCalls *)

\* The alias entries of the three parts are bound to the entries the flag
\* selects.
AliasesBound ==
    \A part \in Parts : \A side \in Sides :
        /\ side \in DOMAIN area[part]
        /\ area[part][side]
             = area[part][RegionName(side, IF include_margins THEN "incl" ELSE "excl")]

\* C17 as claimed: from the end of construction on, after any sequence of
\* calls, each of the twelve alias entries exists and equals the '-incl'
\* entry when the flag is set and the '-excl' entry when it is not.
C17_AliasesFollowFlag == Built => AliasesBound

\* The object has been through a call that binds the aliases: margins() with
\* True, False or no argument, or any call that resolves a region.
Bound ==
    \/ last.op \in {"dimensions", "filter", "overlay", "image"}
    \/ last.op = "margins" /\ last.switch \in {"True", "False", "None"}
    \/ \E side \in Sides : side \in DOMAIN area["full"]

\* C17 as amended: the constructor sets the flag and leaves the table without
\* alias entries; from the first margins() call with True, False or no
\* argument, or the first filter, overlay, image or dimensions call, on, each
\* of the twelve alias entries exists and equals the '-incl' entry when the
\* flag is set and the '-excl' entry when it is not.
C17_AliasesFollowFlagOnceBound ==
    Built =>
        /\ Bound => AliasesBound
        /\ ~Bound => /\ include_margins = TRUE
                     /\ \A part \in Parts : DOMAIN area[part] = BaseRegions

\* The aliases are bound to the '-excl' entries after calls on the buffer.
C17_Witness ==
    /\ Built
    /\ nops > 0
    /\ include_margins = FALSE
    /\ AliasesBound

Now == [flag |-> include_margins, area |-> area]

\* Resolving (part, region) from state st: the pair and the entry found.
Resolve(st, part, region) ==
    LET st1 == AreaCheckState(st)
        pr == AreaCheck(st1, part, region)
    IN [pr |-> pr, entry |-> st1.area[pr[1]][pr[2]]]

\* C18 as claimed: from any reachable state two margins() calls without
\* argument leave the flag and the table as they were, so the refresh of
\* __area_check changes neither, and a (part, region) resolves to the same
\* entry before and after it.
C18_DoubleToggleIdentity ==
    Built =>
        /\ AreaCheckState(Now) = Now
        /\ \A part \in PartArgs, region \in RegionArgs :
              Resolve(AreaCheckState(Now), part, region) = Resolve(Now, part, region)

\* C18 as amended: once the aliases are bound, two margins() calls without
\* argument leave the flag and the table as they were; on a fresh object they
\* leave the flag set and add the twelve aliases, bound to the '-incl'
\* entries; in both cases the flag is unchanged and a (part, region) resolves
\* to the same entry before and after.
C18_DoubleToggleOnceBound ==
    Built =>
        /\ Bound => AreaCheckState(Now) = Now
        /\ ~Bound => AreaCheckState(Now) = Setter(Now, TRUE)
        /\ AreaCheckState(Now).flag = include_margins
        /\ \A part \in PartArgs, region \in RegionArgs :
              Resolve(AreaCheckState(Now), part, region) = Resolve(Now, part, region)

\* dimensions() has resolved an alias while the margins are excluded.
C18_Witness ==
    /\ last.op = "dimensions"
    /\ last.region = "left"
    /\ include_margins = FALSE
    /\ area["header"]["left"] = area["header"]["left-excl"]

\* C19: after any sequence of calls every entry that is not an alias is what
\* the constructor computed, and margins() changes only the aliases and the
\* flag: no other entry and no pixel of the working buffer.
C19_TableComputedOnce ==
    /\ [](Built => \A part \in Parts : \A r \in BaseRegions :
             area[part][r]
               = InitArea(thickness, width, height, header_height, body_height)[part][r])
    /\ [][Built => /\ \A part \in Parts : \A r \in BaseRegions :
                        area'[part][r] = area[part][r]
                   /\ area'["__EMERGENCY"] = area["__EMERGENCY"]
                   /\ last'.op = "margins" => im_obj' = im_obj]_vars

\* margins() has excluded the margins of an object whose buffer was modified.
C19_Witness ==
    /\ last.op = "margins"
    /\ last.switch = "None"
    /\ include_margins = FALSE
    /\ nops > 0
    /\ im_obj # imco

\* C20: every pair a resolution returns has an entry of size, origin and
\* rectangle, and filter() and image() with borders=True on it return
\* normally.
C20_EveryEntryHasRectangle ==
    (Built /\ last.op \in {"dimensions", "filter", "overlay", "image"}) =>
        /\ Len(area[last.resolved[1]][last.resolved[2]]) = 3
        /\ last.op = "filter" => last.raised = "none"
        /\ (last.op = "image" /\ last.borders = "True") => last.raised = "none"

-----------------------------------------------------------------------------
(* Sizes, origins and rectangles of the table, checked under SpecCons *)

\* C21: in a constructed object every entry that carries a rectangle
\* (x0, y0, x1, y1) has the size (x1 - x0, y1 - y0) and the origin (x0, y0),
\* so that dimensions(), overlay() and filter() describe the same pixels.
C21_SizeAndOriginOfRectangle ==
    Built =>
        \A part \in Parts : \A r \in DOMAIN area[part] :
            Len(area[part][r]) = 3 =>
                /\ area[part][r][1] = boxsize(area[part][r][3])
                /\ area[part][r][2] = Origin(area[part][r][3])

====
